---- MODULE Spec2Model ----
(***************************************************************************)
(* Model of final.py, the anti-theft floor mat controller: the poll loop   *)
(* (combined_loop / individual_loop), the alert / capture / notify         *)
(* pipeline it runs for every accepted trigger, capture_image's one-shot   *)
(* retry, send_email_with_image's cooldown, and the try/finally of the     *)
(* main block.                                                             *)
(*                                                                         *)
(* Time is counted in hundredths of a second (0.01 s), the greatest unit   *)
(* in which every duration of the program is a whole number.  `now` is the *)
(* system wall clock, the value time.time() returns: the program's sleeps  *)
(* advance it and the environment may set it back (ClockSetBack), as the   *)
(* wall clock of a host without a monotonic time source can be.            *)
(*                                                                         *)
(* final.py:78-85 are indented one column short of the body of             *)
(* send_email_with_image; the model reads them as part of that body, as    *)
(* the lines around them do.                                               *)
(***************************************************************************)
EXTENDS Integers, Sequences, FiniteSets

\* ------------------------------------------------------------ configuration
\* final.py:19, 0.20 s
DEBOUNCE_S == 20
\* final.py:20
ALARM_BEEPS == 2
\* final.py:21, 0.7 s
WARMUP_S == 70
\* final.py:30, 8.0 s
EMAIL_COOLDOWN_S == 800
\* final.py:51, beep(on=0.18)
BEEP_ON == 18
\* final.py:51, beep(off=0.15)
BEEP_OFF == 15
\* final.py:111, time.sleep(0.2) after the camera is reinitialised
SETTLE_S == 20
\* final.py:139 and 164, time.sleep(0.01)
TICK_S == 1

\* ------------------------------------------------------------------ bounds
\* The wall clock when the program starts (any time later than the cooldown
\* window after the epoch; time.time() counts from 1970).
Epoch == 1000
\* How many pins of PIEZO_PINS the model keeps in individual mode.
NumPins == 2
\* How many GPIO.input reads a run makes.
MaxReads == 3
\* How many irregular events a run has: a failed call of the camera or of the
\* mail relay, a sleep of the poll loop that takes longer than asked, a
\* set-back of the wall clock, an active instant the loop does not sample.
MaxIrregular == 2
\* What a time.sleep(0.01) of the poll loop may take beyond the 0.01 s asked
\* for (time.sleep returns no earlier than asked, and may return later).
Oversleep == {0, 24, 263, 363, 663}
\* The amounts by which the wall clock may be set back.
SetBacks == {117, 127}
\* The environments the program is started in: [user, pass, to] say whether
\* EMAIL_USER and EMAIL_PASS are set, and whether EMAIL_TO is set.
CredCases ==
    { [user |-> TRUE,  pass |-> TRUE,  to |-> "unset"],
      [user |-> TRUE,  pass |-> FALSE, to |-> "set"],
      [user |-> FALSE, pass |-> TRUE,  to |-> "unset"] }

\* --------------------------------------------------------------- variables
VARIABLES
    mode,           \* "combined" | "individual": COMBINED_MAT
    creds,          \* [user, pass, to]: which of EMAIL_USER, EMAIL_PASS, EMAIL_TO are set
    pc,             \* the statement the process is at
    now,            \* the wall clock
    last,           \* combined_loop's last / individual_loop's last[p]
    tnow,           \* the loop's local `now` of the trigger being handled
    cur,            \* the channel being handled (0: the combined pin; k: PIEZO_PINS[k-1])
    beeps,          \* beep's loop counter
    last_email_ts,  \* _last_email_ts
    ledRed, ledGreen, buzzer,   \* the output pins' levels
    gpioClean,      \* GPIO.cleanup() of the finally block has run
    camStarted,     \* the camera handle `cam` is started
    camOrphan,      \* a handle that was started has been replaced without being stopped
    attempt,        \* 0 outside capture_image; 1 first _try_capture; 2 the retry
    img,            \* capture_image's path, <<tag, second>>
    files,          \* the capture artifacts on disk
    exc,            \* the exception that ended the try block, "" if none
    irregular,      \* number of irregular events so far
    \* history (not read by the program)
    reads,          \* number of GPIO.input reads so far
    samples,        \* the active reads: [ch, t, lastb, acc]
    mails,          \* the send_email_with_image calls: [t, lastb, lasta, res, n, ch]
    trace,          \* the steps since the last accepted trigger
    pulses,         \* active instants the loop did not sample: [ch, t, k] (k samples before it)
    nAccepted,      \* number of accepted triggers
    capAttempts,    \* _try_capture calls of the current capture_image call
    capReinits,     \* Picamera2() calls of the current capture_image call
    caps,           \* the capture_image calls: [t, path, sb] (sb set-backs before it)
    nset            \* number of set-backs of the wall clock so far

gpioVars == <<ledRed, ledGreen, buzzer, gpioClean>>
camVars == <<camStarted, camOrphan, attempt, img, files, capAttempts, capReinits>>
loopVars == <<last, tnow, cur, beeps>>
cfgVars == <<mode, creds>>
envVars == <<cfgVars, irregular>>
histVars == <<reads, samples, mails, trace, pulses, nAccepted, caps, nset>>
vars == <<envVars, pc, now, loopVars, last_email_ts, gpioVars, camVars, exc, histVars>>

\* ----------------------------------------------------------------- helpers
\* final.py:118-122, 143-146: the channels the loop of the mode reads.
Channels == IF mode = "combined" THEN {0} ELSE 1..NumPins

\* final.py:122, 145: the first channel a tick reads.
FirstChannel == IF mode = "combined" THEN 0 ELSE 1

\* final.py:145: the for loop is over (ch was the last pin of PIEZO_PINS).
LastChannel(ch) == mode = "combined" \/ ch = NumPins

\* final.py:129, 149, 154: the tag of a channel, "intruder" (0) or
\* "intruder_s<idx>" (idx = PIEZO_PINS.index(p) + 1).
TagOf(ch) == ch

\* Mutant of the file name's time: minute resolution.
timestamp_Minutes(t) == t \div (60 * 100)

\* final.py:56-57: strftime("%Y%m%d_%H%M%S") has second resolution.
timestamp(t) == t \div 100

\* Mutants of the debounce check: no window; a window twice as long; the
\* distance of the two times whatever their order; the cooldown of the
\* notifications in place of the debounce window; a sample exactly the window
\* after the last accepted one passes.
Debounced_Inclusive(t, l) == t - l >= DEBOUNCE_S
Debounced_Cooldown(t, l) == t - l > EMAIL_COOLDOWN_S
Debounced_NoWindow(t, l) == t - l > 0
Debounced_Doubled(t, l) == t - l > 2 * DEBOUNCE_S
Debounced_Abs(t, l) == (IF t >= l THEN t - l ELSE l - t) > DEBOUNCE_S

\* final.py:124, 148: the debounce check.
Debounced(t, l) == t - l > DEBOUNCE_S

\* Mutant of the cooldown check: the debounce window in place of the cooldown.
InCooldown_Debounce(t, ts) == t - ts < DEBOUNCE_S

\* final.py:63: the cooldown check.
InCooldown(t, ts) == t - ts < EMAIL_COOLDOWN_S

\* final.py:27: EMAIL_TO defaults to EMAIL_USER when the variable is not set.
EmailTo(user, to) == IF to = "unset" THEN user ELSE to = "set"

\* final.py:68: EMAIL_USER and EMAIL_PASS and EMAIL_TO.
CredsPresent == creds.user /\ creds.pass /\ EmailTo(creds.user, creds.to)

\* The outcomes of a call that may fail: success, or (while the run's budget
\* of failures lasts) an exception.
Outcomes == IF irregular < MaxIrregular THEN BOOLEAN ELSE {TRUE}
Oversleeps == IF irregular < MaxIrregular THEN Oversleep ELSE {0}
Fault(ok) == irregular' = IF ok THEN irregular ELSE irregular + 1

Step(op, ch, path) == [op |-> op, ch |-> ch, path |-> path]
NoPath == <<-1, -1>>

\* The trace is inside a pipeline: a trigger was accepted and its last step
\* (alarm indicator off) has not been taken.
Open(tr) == tr /= <<>> /\ tr[Len(tr)].op /= "alarm_off"

\* -------------------------------------------------------------------- Init
\* The state when the try block of the main section is entered
\* (final.py:31, 34-37 have run).
Init ==
    /\ mode \in {"combined", "individual"}
    /\ creds \in CredCases
    /\ pc = "setup_inputs"
    /\ now = Epoch
    /\ last = [c \in Channels |-> 0]
    /\ tnow = 0
    /\ cur = FirstChannel
    /\ beeps = 0
    /\ last_email_ts = 0
    /\ ledRed = FALSE /\ ledGreen = FALSE /\ buzzer = FALSE
    /\ gpioClean = FALSE
    /\ camStarted = FALSE /\ camOrphan = FALSE
    /\ attempt = 0
    /\ img = NoPath
    /\ files = {}
    /\ exc = ""
    /\ irregular = 0
    /\ reads = 0
    /\ samples = <<>> /\ mails = <<>> /\ trace = <<>> /\ pulses = {}
    /\ nAccepted = 0
    /\ capAttempts = 0 /\ capReinits = 0
    /\ caps = <<>> /\ nset = 0

\* ----------------------------------------------------------------- startup
\* final.py:168 (39-44) and 169 (46-49): the pins are set up, the outputs low.
Setup ==
    /\ pc = "setup_inputs"
    /\ ledRed' = FALSE /\ ledGreen' = FALSE /\ buzzer' = FALSE
    /\ pc' = "arm"
    /\ UNCHANGED <<envVars, now, loopVars, last_email_ts, gpioClean, camVars, exc, histVars>>

\* final.py:171-172: the armed indicator goes on.
Arm ==
    /\ pc = "arm"
    /\ ledGreen' = TRUE
    /\ pc' = "cam_init"
    /\ UNCHANGED <<envVars, now, loopVars, last_email_ts, ledRed, buzzer, gpioClean, camVars,
                   exc, histVars>>

\* final.py:174-179: cam = Picamera2(), then the loop of the mode; a failing
\* constructor ends the try block.
CamInit ==
    /\ pc = "cam_init"
    /\ \E ok \in Outcomes :
         /\ Fault(ok)
         /\ IF ok THEN pc' = "poll" /\ exc' = exc
                  ELSE pc' = "finally" /\ exc' = "Exception"
    /\ UNCHANGED <<cfgVars, now, loopVars, last_email_ts, gpioVars, camVars, histVars>>

\* --------------------------------------------------------------- poll loop
\* final.py:145 / 139, 164: the next pin of the for loop, or the tick's sleep.
NextPc(ch) == IF LastChannel(ch) THEN "tick" ELSE "poll"
NextCh(ch) == IF LastChannel(ch) THEN ch ELSE ch + 1

\* Mutant of the pipeline: the buzzer pattern is left out.
AfterAlarmOn_NoBeep == "capture"

\* final.py:127, 129: beep(ALARM_BEEPS) runs its body ALARM_BEEPS times.
AfterAlarmOn == IF ALARM_BEEPS > 0 THEN "beep" ELSE "capture"

\* final.py:122-126, 146-151: one GPIO.input read of channel cur, reading v.
\* Active and past the debounce window: the trigger is accepted, the alarm
\* indicator goes on.  Otherwise the loop goes on to the next pin or the sleep.
Poll(v) ==
    /\ pc = "poll"
    /\ reads < MaxReads
    /\ reads' = reads + 1
    /\ LET acc == v /\ Debounced(now, last[cur])
           seen == IF Open(trace)
                     THEN Append(trace, Step("sample", cur, NoPath)) ELSE trace
       IN  /\ samples' = IF v THEN Append(samples,
                                   [ch |-> cur, t |-> now, lastb |-> last[cur], acc |-> acc])
                              ELSE samples
           /\ IF acc
                THEN /\ tnow' = now
                     /\ ledRed' = TRUE
                     /\ pc' = AfterAlarmOn
                     /\ cur' = cur
                     /\ nAccepted' = nAccepted + 1
                     /\ trace' = <<Step("alarm_on", cur, NoPath)>>
                ELSE /\ pc' = NextPc(cur)
                     /\ cur' = NextCh(cur)
                     /\ trace' = seen
                     /\ UNCHANGED <<tnow, ledRed, nAccepted>>
    /\ beeps' = 0
    /\ UNCHANGED <<envVars, now, last, last_email_ts, ledGreen, buzzer, gpioClean, camVars,
                   exc, mails, pulses, caps, nset>>

\* final.py:139, 164: time.sleep(0.01), then the next iteration of while True.
TickSleep ==
    /\ pc = "tick"
    /\ reads < MaxReads
    /\ \E e \in Oversleeps :
         /\ now' = now + TICK_S + e
         /\ irregular' = IF e = 0 THEN irregular ELSE irregular + 1
    /\ cur' = FirstChannel
    /\ pc' = "poll"
    /\ UNCHANGED <<cfgVars, last, tnow, beeps, last_email_ts, gpioVars, camVars, exc, histVars>>

\* -------------------------------------------------------------------- beep
\* final.py:53: the buzzer goes high; the process then sleeps `on`.
BeepHigh ==
    /\ pc = "beep"
    /\ beeps < ALARM_BEEPS
    /\ buzzer' = TRUE
    /\ pc' = "beep_on"
    /\ trace' = IF beeps = 0 THEN Append(trace, Step("beep", cur, NoPath)) ELSE trace
    /\ UNCHANGED <<envVars, now, loopVars, last_email_ts, ledRed, ledGreen, gpioClean, camVars,
                   exc, reads, samples, mails, pulses, nAccepted, caps, nset>>

\* Mutant of beep: the buzzer is not driven low after the `on` time.
BeepLow_StaysHigh ==
    /\ pc = "beep_on"
    /\ now' = now + BEEP_ON
    /\ pc' = "beep_off"
    /\ UNCHANGED <<envVars, loopVars, last_email_ts, gpioVars, camVars, exc, histVars>>

\* final.py:53-54: the sleep of `on` is over, the buzzer goes low; the
\* process then sleeps `off`.
BeepLow ==
    /\ pc = "beep_on"
    /\ now' = now + BEEP_ON
    /\ buzzer' = FALSE
    /\ pc' = "beep_off"
    /\ UNCHANGED <<envVars, loopVars, last_email_ts, ledRed, ledGreen, gpioClean, camVars, exc,
                   histVars>>

\* final.py:52, 54: the sleep of `off` is over; the next pulse, or beep returns.
BeepEnd ==
    /\ pc = "beep_off"
    /\ now' = now + BEEP_OFF
    /\ beeps' = beeps + 1
    /\ pc' = IF beeps + 1 < ALARM_BEEPS THEN "beep" ELSE "capture"
    /\ UNCHANGED <<envVars, last, tnow, cur, last_email_ts, gpioVars, camVars, exc, histVars>>

\* ----------------------------------------------------------- capture_image
\* Mutant of the failure handling: every failure is retried.
OnCaptureFailure_Always(att) == "cam_recover"

\* final.py:103-115: where a failure of _try_capture goes: the handler of
\* the first attempt, or (the retry) out of capture_image.
OnCaptureFailure(att) == IF att = 1 THEN "cam_recover" ELSE "finally"

\* Mutant of the pipeline: the notification is left out.
AfterCapture_NoEmail == "alarm_off"

\* final.py:129-130: capture_image has returned; its caller calls
\* send_email_with_image.
AfterCapture == "email"

\* final.py:94-95, 104: fname and path are built, the first _try_capture starts.
CaptureBegin ==
    /\ pc = "capture"
    /\ img' = <<TagOf(cur), timestamp(now)>>
    /\ attempt' = 1
    /\ capAttempts' = 1
    /\ capReinits' = 0
    /\ pc' = "cam_start"
    /\ trace' = Append(trace, Step("capture", cur, <<TagOf(cur), timestamp(now)>>))
    /\ caps' = Append(caps, [t |-> now, path |-> <<TagOf(cur), timestamp(now)>>, sb |-> nset])
    /\ UNCHANGED <<envVars, now, loopVars, last_email_ts, gpioVars, camStarted, camOrphan, files,
                   exc, reads, samples, mails, pulses, nAccepted, nset>>

\* final.py:98: cam.start(); the process then sleeps WARMUP_S.
CamStart ==
    /\ pc = "cam_start"
    /\ \E ok \in Outcomes :
         /\ Fault(ok)
         /\ IF ok THEN /\ camStarted' = TRUE
                       /\ pc' = "warmup"
                       /\ exc' = exc
                  ELSE /\ camStarted' = camStarted
                       /\ pc' = OnCaptureFailure(attempt)
                       /\ exc' = IF attempt = 1 THEN exc ELSE "Exception"
    /\ UNCHANGED <<cfgVars, now, loopVars, last_email_ts, gpioVars, camOrphan, attempt, img,
                   files, capAttempts, capReinits, histVars>>

\* final.py:99-100: the warm-up sleep is over; cam.capture_file(path).
CaptureFile ==
    /\ pc = "warmup"
    /\ now' = now + WARMUP_S
    /\ \E ok \in Outcomes :
         /\ Fault(ok)
         /\ IF ok THEN /\ files' = files \cup {img}
                       /\ pc' = "cam_stop"
                       /\ exc' = exc
                  ELSE /\ files' = files
                       /\ pc' = OnCaptureFailure(attempt)
                       /\ exc' = IF attempt = 1 THEN exc ELSE "Exception"
    /\ UNCHANGED <<cfgVars, loopVars, last_email_ts, gpioVars, camStarted, camOrphan, attempt,
                   img, capAttempts, capReinits, histVars>>

\* final.py:101, 116: cam.stop(), and capture_image returns path.
CamStop ==
    /\ pc = "cam_stop"
    /\ \E ok \in Outcomes :
         /\ Fault(ok)
         /\ IF ok THEN /\ camStarted' = FALSE
                       /\ attempt' = 0
                       /\ pc' = AfterCapture
                       /\ exc' = exc
                  ELSE /\ camStarted' = camStarted
                       /\ attempt' = attempt
                       /\ pc' = OnCaptureFailure(attempt)
                       /\ exc' = IF attempt = 1 THEN exc ELSE "Exception"
    /\ UNCHANGED <<cfgVars, now, loopVars, last_email_ts, gpioVars, camOrphan, img, files,
                   capAttempts, capReinits, histVars>>

\* Mutant of the handler: a failure of its cam.stop() is not swallowed.
CamRecover_NoSwallow ==
    /\ pc = "cam_recover"
    /\ \E ok \in Outcomes :
         /\ Fault(ok)
         /\ camStarted' = IF ok THEN FALSE ELSE camStarted
         /\ pc' = IF ok THEN "cam_reinit" ELSE "finally"
         /\ exc' = IF ok THEN exc ELSE "Exception"
    /\ UNCHANGED <<cfgVars, now, loopVars, last_email_ts, gpioVars, camOrphan, attempt, img,
                   files, capAttempts, capReinits, histVars>>

\* final.py:105-108: the handler of the first failure: cam.stop(), whose own
\* failure is swallowed.
CamRecover ==
    /\ pc = "cam_recover"
    /\ \E ok \in Outcomes :
         /\ Fault(ok)
         /\ camStarted' = IF ok THEN FALSE ELSE camStarted
    /\ pc' = "cam_reinit"
    /\ UNCHANGED <<cfgVars, now, loopVars, last_email_ts, gpioVars, camOrphan, attempt, img,
                   files, capAttempts, capReinits, exc, histVars>>

\* Mutant of the recovery: the retry runs on the handle of the first attempt
\* (no new Picamera2 object).
CamReinit_SameHandle ==
    /\ pc = "cam_reinit"
    /\ capReinits' = capReinits + 1
    /\ now' = now + SETTLE_S
    /\ attempt' = 2
    /\ capAttempts' = capAttempts + 1
    /\ pc' = "cam_start"
    /\ UNCHANGED <<envVars, loopVars, last_email_ts, gpioVars, camStarted, camOrphan, img, files,
                   exc, histVars>>

\* final.py:110-115: cam = Picamera2(), the settle sleep, and the retry's
\* _try_capture starts; a failing constructor is re-raised like a failing retry.
CamReinit ==
    /\ pc = "cam_reinit"
    /\ capReinits' = capReinits + 1
    /\ \E ok \in Outcomes :
         /\ Fault(ok)
         /\ IF ok THEN /\ camOrphan' = (camOrphan \/ camStarted)
                       /\ camStarted' = FALSE
                       /\ now' = now + SETTLE_S
                       /\ attempt' = 2
                       /\ capAttempts' = capAttempts + 1
                       /\ pc' = "cam_start"
                       /\ exc' = exc
                  ELSE /\ pc' = "finally"
                       /\ exc' = "Exception"
                       /\ UNCHANGED <<camOrphan, camStarted, now, attempt, capAttempts>>
    /\ UNCHANGED <<cfgVars, loopVars, last_email_ts, gpioVars, img, files, histVars>>

\* --------------------------------------------------- send_email_with_image
\* Mutants of the timestamp's update: only when the message is going to be
\* sent; never (the assignment lost); on every call.
LastEmailTsAfter_OnlySending(t, ts) == IF InCooldown(t, ts) \/ ~CredsPresent THEN ts ELSE t
LastEmailTsAfter_Never(t, ts) == ts
LastEmailTsAfter_Always(t, ts) == t

\* final.py:61-66: _last_email_ts after the cooldown check of a call at t.
LastEmailTsAfter(t, ts) == IF InCooldown(t, ts) THEN ts ELSE t

\* final.py:62-70: what a call at t does: skipped by the cooldown, skipped
\* for missing credentials, or on to the transmission.
EmailOutcome(t, ts) ==
    IF InCooldown(t, ts) THEN "cooldown"
    ELSE IF ~CredsPresent THEN "nocreds"
    ELSE "sending"

\* final.py:130-134, 59-70: the call of send_email_with_image(img, ...) up to
\* the credentials check.
EmailEnter ==
    /\ pc = "email"
    /\ LET res == EmailOutcome(now, last_email_ts)
       IN  /\ last_email_ts' = LastEmailTsAfter(now, last_email_ts)
           /\ mails' = Append(mails, [t |-> now, lastb |-> last_email_ts,
                                      lasta |-> LastEmailTsAfter(now, last_email_ts),
                                      res |-> res, n |-> nAccepted, ch |-> cur])
           /\ pc' = IF res = "sending" THEN "smtp" ELSE "alarm_off"
    /\ trace' = Append(trace, Step("email", cur, img))
    /\ UNCHANGED <<envVars, now, loopVars, gpioVars, camVars, exc, reads, samples,
                   pulses, nAccepted, caps, nset>>

\* Mutant of the transmission: a failure is caught and the pipeline goes on.
Smtp_Swallow ==
    /\ pc = "smtp"
    /\ \E ok \in Outcomes :
         /\ Fault(ok)
         /\ mails' = [mails EXCEPT ![Len(mails)].res = IF ok THEN "sent" ELSE "failed"]
    /\ pc' = "alarm_off"
    /\ UNCHANGED <<cfgVars, now, loopVars, last_email_ts, gpioVars, camVars, exc, reads,
                   samples, trace, pulses, nAccepted, caps, nset>>

\* final.py:72-89: the message is built and sent over SMTP; a failure of the
\* transmission is not caught.
Smtp ==
    /\ pc = "smtp"
    /\ \E ok \in Outcomes :
         /\ Fault(ok)
         /\ mails' = [mails EXCEPT ![Len(mails)].res = IF ok THEN "sent" ELSE "failed"]
         /\ pc' = IF ok THEN "alarm_off" ELSE "finally"
         /\ exc' = IF ok THEN exc ELSE "Exception"
    /\ UNCHANGED <<cfgVars, now, loopVars, last_email_ts, gpioVars, camVars, reads,
                   samples, trace, pulses, nAccepted, caps, nset>>

\* Mutants of the end of the pipeline: the channel's last-trigger timestamp
\* becomes the time the pipeline finished; the timestamp of every channel is
\* updated (one timestamp shared by the pins).
AlarmOff_FinishTime ==
    /\ pc = "alarm_off"
    /\ ledRed' = FALSE
    /\ last' = [last EXCEPT ![cur] = now]
    /\ trace' = Append(trace, Step("alarm_off", cur, NoPath))
    /\ pc' = NextPc(cur)
    /\ cur' = NextCh(cur)
    /\ UNCHANGED <<envVars, now, tnow, beeps, last_email_ts, ledGreen, buzzer, gpioClean,
                   camVars, exc, reads, samples, mails, pulses, nAccepted, caps, nset>>

AlarmOff_AllChannels ==
    /\ pc = "alarm_off"
    /\ ledRed' = FALSE
    /\ last' = [c \in DOMAIN last |-> tnow]
    /\ trace' = Append(trace, Step("alarm_off", cur, NoPath))
    /\ pc' = NextPc(cur)
    /\ cur' = NextCh(cur)
    /\ UNCHANGED <<envVars, now, tnow, beeps, last_email_ts, ledGreen, buzzer, gpioClean,
                   camVars, exc, reads, samples, mails, pulses, nAccepted, caps, nset>>

\* final.py:135-138, 160-163: the alarm indicator goes off and the channel's
\* last-trigger timestamp becomes the accepted sample's time.
AlarmOff ==
    /\ pc = "alarm_off"
    /\ ledRed' = FALSE
    /\ last' = [last EXCEPT ![cur] = tnow]
    /\ trace' = Append(trace, Step("alarm_off", cur, NoPath))
    /\ pc' = NextPc(cur)
    /\ cur' = NextCh(cur)
    /\ UNCHANGED <<envVars, now, tnow, beeps, last_email_ts, ledGreen, buzzer, gpioClean,
                   camVars, exc, reads, samples, mails, pulses, nAccepted, caps, nset>>

\* ---------------------------------------------------------------- shutdown
Running == pc \notin {"finally", "exited"}

\* final.py:183-188: the finally block: the three outputs low, GPIO.cleanup().
FinallyBlock ==
    /\ ledGreen' = FALSE /\ ledRed' = FALSE /\ buzzer' = FALSE
    /\ gpioClean' = TRUE
    /\ pc' = "exited"

\* final.py:181-188: Ctrl+C at any statement of the try block: the except
\* clause passes and the finally block runs.
Interrupt ==
    /\ Running
    /\ exc' = "KeyboardInterrupt"
    /\ FinallyBlock
    /\ UNCHANGED <<envVars, now, loopVars, last_email_ts, camVars, histVars>>

\* final.py:183-188: the finally block after any other exception left the
\* try block.
Finally ==
    /\ pc = "finally"
    /\ FinallyBlock
    /\ UNCHANGED <<envVars, now, loopVars, last_email_ts, camVars, exc, histVars>>

\* ------------------------------------------------------------- environment
\* The statements at which the model sets the clock back: in the tick's sleep,
\* before the loop reads the clock (final.py:123, 147), and before
\* capture_image reads it for the file name (final.py:94); the read of
\* send_email_with_image (final.py:62) follows and sees the same set-back.
ClockReadAhead == pc \in {"tick", "capture"}

\* The wall clock that time.time() and datetime.now() read is set back.
ClockSetBack ==
    /\ ClockReadAhead
    /\ irregular < MaxIrregular
    /\ \E b \in SetBacks : now' = now - b
    /\ irregular' = irregular + 1
    /\ nset' = nset + 1
    /\ UNCHANGED <<cfgVars, pc, loopVars, last_email_ts, gpioVars, camVars, exc, reads, samples,
                   mails, trace, pulses, nAccepted, caps>>

\* The loop is inside the pipeline of an accepted trigger, not at a
\* GPIO.input: beep has returned and capture_image is about to be called
\* (final.py:127-129, 152-154).
NotSampling == pc = "capture"

\* A channel is active at this instant and inactive again before the loop's
\* next GPIO.input of it.
Pulse ==
    /\ NotSampling
    /\ irregular < MaxIrregular
    /\ \E ch \in Channels :
         /\ [ch |-> ch, t |-> now, k |-> Len(samples)] \notin pulses
         /\ pulses' = pulses \cup {[ch |-> ch, t |-> now, k |-> Len(samples)]}
    /\ irregular' = irregular + 1
    /\ UNCHANGED <<cfgVars, pc, now, loopVars, last_email_ts, gpioVars, camVars, exc, reads,
                   samples, mails, trace, nAccepted, caps, nset>>

\* -------------------------------------------------------------------- Spec
Next ==
    \/ Setup
    \/ Arm
    \/ CamInit
    \/ \E v \in BOOLEAN : Poll(v)
    \/ TickSleep
    \/ BeepHigh
    \/ BeepLow
    \/ BeepEnd
    \/ CaptureBegin
    \/ CamStart
    \/ CaptureFile
    \/ CamStop
    \/ CamRecover
    \/ CamReinit
    \/ EmailEnter
    \/ Smtp
    \/ AlarmOff
    \/ Interrupt
    \/ Finally
    \/ ClockSetBack
    \/ Pulse

Spec == Init /\ [][Next]_vars

\* ------------------------------------------- a channel held active, no failure
\* The channel that is held active: the combined pin, or the first pin of
\* PIEZO_PINS; the other pins read anything.
HeldChannel == FirstChannel

\* A step of the program while HeldChannel is held active and nothing fails:
\* every call succeeds, every sleep takes the time asked for, the wall clock
\* runs forward and nobody presses Ctrl+C, so the loop runs on
\* (final.py:121-139, 144-164).
NextHeld ==
    /\ \/ Setup
       \/ Arm
       \/ CamInit
       \/ \E v \in BOOLEAN : (cur = HeldChannel => v) /\ Poll(v)
       \/ TickSleep
       \/ BeepHigh
       \/ BeepLow
       \/ BeepEnd
       \/ CaptureBegin
       \/ CamStart
       \/ CaptureFile
       \/ CamStop
       \/ EmailEnter
       \/ Smtp
       \/ AlarmOff
    /\ irregular' = irregular
    /\ exc' = exc

\* The process is the only one and nothing stops it: it takes its next step.
SpecHeld == Init /\ [][NextHeld]_vars /\ WF_vars(NextHeld)

\* ------------------------------------------------------------------ claims
Mails == 1..Len(mails)
Samples == 1..Len(samples)
Exited == pc \in {"finally", "exited"}
MailedFor(n) == \E i \in Mails : mails[i].n = n

\* C1: any two transmissions of send_email_with_image are at least
\* EMAIL_COOLDOWN_S apart by the time read on entry, in either mode and across
\* channels; a call made less than the cooldown after a call that transmitted
\* is skipped by the cooldown.
C1_CooldownBetweenTransmissions ==
    \A i, j \in Mails :
        (i < j /\ mails[i].res = "sent") =>
            /\ mails[j].t - mails[i].t < EMAIL_COOLDOWN_S => mails[j].res = "cooldown"
            /\ mails[j].res \in {"sent", "sending", "failed"} =>
                   mails[j].t - mails[i].t >= EMAIL_COOLDOWN_S

\* C1's case: in individual mode a call for one channel transmitted and a call
\* for another channel, less than the cooldown later, was skipped.
C1_Witness ==
    \E i, j \in Mails :
        /\ i < j
        /\ mails[i].res = "sent" /\ mails[j].res = "cooldown"
        /\ mails[i].ch /= mails[j].ch
        /\ mails[j].t - mails[i].t \in 0..(EMAIL_COOLDOWN_S - 1)

\* C2: of two active readings of one channel less than DEBOUNCE_S apart, the
\* first of which is accepted, the second is rejected: the pair runs the
\* pipeline exactly once.
C2_DebounceOneEvent ==
    \A i, j \in Samples :
        (/\ i < j
         /\ samples[i].ch = samples[j].ch
         /\ samples[i].acc
         /\ samples[j].t - samples[i].t < DEBOUNCE_S) => ~samples[j].acc

\* C2's case: an accepted reading and a later reading of the same channel
\* within the window, which was rejected.
C2_Witness ==
    \E i, j \in Samples :
        /\ i < j
        /\ samples[i].ch = samples[j].ch
        /\ samples[i].acc /\ ~samples[j].acc
        /\ samples[j].t - samples[i].t \in 0..(DEBOUNCE_S - 1)

\* C3 as stated: two triggers of a channel more than DEBOUNCE_S apart each
\* produce an accepted event, however long the pipeline of the first blocks
\* the loop: after an accepted trigger, every later active instant of the
\* channel more than DEBOUNCE_S after it, sampled or not, is accepted.
C3_Original ==
    \A i \in Samples :
        samples[i].acc =>
            /\ \A j \in Samples :
                   (/\ i < j
                    /\ samples[j].ch = samples[i].ch
                    /\ samples[j].t - samples[i].t > DEBOUNCE_S) => samples[j].acc
            /\ \A p \in pulses :
                   ~(/\ p.k >= i
                     /\ p.ch = samples[i].ch
                     /\ p.t - samples[i].t > DEBOUNCE_S)

\* The channel's last-trigger timestamp when sample i was taken, from the
\* history: the time of the last accepted sample of the channel before i.
LastAcceptedBefore(i) ==
    LET S == {k \in 1..(i - 1) : samples[k].ch = samples[i].ch /\ samples[k].acc}
    IN  IF S = {} THEN 0 ELSE samples[CHOOSE k \in S : \A m \in S : m <= k].t

\* C3 amended: a trigger the loop samples more than DEBOUNCE_S after the
\* channel's last accepted trigger produces an accepted event, whatever the
\* other channels do.
C3_SampledTriggerAccepted ==
    \A i \in Samples :
        /\ samples[i].lastb = LastAcceptedBefore(i)
        /\ samples[i].t - LastAcceptedBefore(i) > DEBOUNCE_S => samples[i].acc

\* C3's case: in individual mode two accepted triggers of one channel with a
\* sample of another channel between them.
C3_Witness ==
    \E i, j, k \in Samples :
        /\ i < j /\ j < k
        /\ samples[i].ch = samples[k].ch /\ samples[j].ch /= samples[i].ch
        /\ samples[i].acc /\ samples[k].acc
        /\ samples[k].t - samples[i].t > DEBOUNCE_S

PipelineOps == <<"alarm_on", "beep", "capture", "email", "alarm_off">>

\* C4: the steps of an accepted trigger are, in this order, alarm indicator
\* on, buzzer pattern, capture_image with the channel's tag, send_email_with_image
\* with the captured path, alarm indicator off; no channel is sampled before
\* the last step is done.
C4_PipelineOrder ==
    /\ Len(trace) <= Len(PipelineOps)
    /\ \A k \in 1..Len(trace) :
        /\ trace[k].op = PipelineOps[k]
        /\ trace[k].ch = trace[1].ch
        /\ k = 3 => trace[k].path[1] = TagOf(trace[1].ch)
        /\ k = 4 => (trace[k].path = trace[3].path /\ trace[k].path \in files)
    /\ pc \in {"poll", "tick"} => ~Open(trace)
    /\ Len(trace) = Len(PipelineOps) => ~ledRed

\* C4's case: a pipeline that ran to its last step.
C4_Witness ==
    /\ Len(trace) = Len(PipelineOps)
    /\ trace[Len(trace)].op = "alarm_off"

\* capture_image has raised: the try block was left by an exception while a
\* capture attempt was under way.
CaptureRaised == Exited /\ exc = "Exception" /\ attempt > 0

\* C5: capture_image makes at most two attempts; when it returns after a
\* failed first attempt it has retried exactly once and the path is written;
\* when the retry fails too the call raises, nothing further is attempted and
\* send_email_with_image is not called for that trigger.
C5_CaptureRetry ==
    /\ capAttempts <= 2
    /\ capReinits <= 1
    /\ (attempt = 0 /\ capAttempts = 2) => (capReinits = 1 /\ img \in files)
    /\ (exc = "Exception" /\ attempt = 2) =>
           (Exited /\ capAttempts = 2 /\ ~MailedFor(nAccepted))

\* C5's case: the first attempt and the retry both failed.
C5_Witness ==
    /\ pc = "exited" /\ exc = "Exception"
    /\ attempt = 2 /\ capAttempts = 2 /\ capReinits = 1

\* C6: with a credential absent, a call past the cooldown transmits nothing
\* and sets _last_email_ts to its own time, and every later call within
\* EMAIL_COOLDOWN_S of it is skipped by the cooldown check.
C6_MissingCredsConsumeCooldown ==
    \A i \in Mails :
        /\ (~CredsPresent /\ mails[i].t - mails[i].lastb >= EMAIL_COOLDOWN_S) =>
               mails[i].res = "nocreds"
        /\ ~CredsPresent => mails[i].res \in {"nocreds", "cooldown"}
        /\ mails[i].res = "nocreds" =>
               /\ mails[i].lasta = mails[i].t
               /\ \A j \in Mails :
                      (i < j /\ mails[j].t - mails[i].t < EMAIL_COOLDOWN_S) =>
                          mails[j].res = "cooldown"

\* C6's case: a call skipped for missing credentials, and a later call within
\* the cooldown of it.
C6_Witness ==
    \E i, j \in Mails :
        /\ i < j
        /\ mails[i].res = "nocreds" /\ mails[j].res = "cooldown"
        /\ mails[j].t - mails[i].t \in 0..(EMAIL_COOLDOWN_S - 1)

\* C7 as stated: when the process has exited, on whatever path, the three
\* outputs are low, the GPIO pins are released and the camera is not left
\* started.
C7_CleanExit ==
    pc = "exited" =>
        /\ ~ledGreen /\ ~ledRed /\ ~buzzer
        /\ gpioClean
        /\ ~camStarted /\ ~camOrphan

\* C8 as stated: the Notifier is invoked for every accepted trigger, also when
\* an earlier step of the trigger failed.
C8_Original ==
    (Exited /\ exc = "Exception" /\ nAccepted > 0) => MailedFor(nAccepted)

\* C8 amended: the Notifier is invoked, after the alert and the capture, for
\* exactly the accepted triggers whose capture_image call returned: every
\* earlier trigger and every trigger past its capture has one call, and a
\* trigger whose capture raised has none.
C8_NotifiedIffCaptured ==
    /\ \A n \in 1..(nAccepted - 1) : MailedFor(n)
    /\ \A i, j \in Mails : mails[i].n = mails[j].n => i = j
    /\ nAccepted > 0 =>
           (MailedFor(nAccepted) <=> \E k \in 1..Len(trace) : trace[k].op = "email")
    /\ pc \in {"smtp", "alarm_off"} => MailedFor(nAccepted)
    /\ (\E k \in 1..Len(trace) : trace[k].op = "alarm_off") => MailedFor(nAccepted)
    /\ CaptureRaised => ~MailedFor(nAccepted)

\* C8's case: the capture of the second trigger raised after the first
\* trigger was notified.
C8_Witness ==
    /\ CaptureRaised
    /\ nAccepted = 2
    /\ MailedFor(1) /\ ~MailedFor(2)

\* C9 as stated: every call of send_email_with_image, cooldown-skipped or
\* not, changes _last_email_ts.
C9_Original ==
    \A i \in Mails : mails[i].lasta /= mails[i].lastb

\* C9 amended: _last_email_ts is set to the call's time by every call that
\* passes the cooldown check (transmitted, failed, or skipped for missing
\* credentials) and is left as it was by a cooldown-skipped call.
C9_TimestampUpdate ==
    /\ \A i \in Mails :
           IF mails[i].res = "cooldown"
             THEN mails[i].lasta = mails[i].lastb
             ELSE mails[i].lasta = mails[i].t /\ mails[i].lasta /= mails[i].lastb
    /\ last_email_ts = IF mails = <<>> THEN 0 ELSE mails[Len(mails)].lasta
    /\ \A i \in Mails : mails[i].lastb = IF i = 1 THEN 0 ELSE mails[i - 1].lasta

\* C9's case: a call that transmitted, then a cooldown-skipped call.
C9_Witness ==
    \E i \in Mails :
        /\ i < Len(mails)
        /\ mails[i].res = "sent"
        /\ mails[i + 1].res = "cooldown"
        /\ mails[i + 1].lasta = mails[i].t

\* The time of the last call before call i that passed the cooldown check
\* (0, the initial _last_email_ts, if none).
LastPass(i) ==
    LET S == {k \in 1..(i - 1) : mails[k].res /= "cooldown"}
    IN  IF S = {} THEN 0 ELSE mails[CHOOSE k \in S : \A m \in S : m <= k].t

\* C10: a cooldown-skipped call transmits nothing and leaves _last_email_ts
\* unchanged, so a call is skipped exactly when it is less than
\* EMAIL_COOLDOWN_S after the last call that passed the check; calls at t,
\* t + 5 s and t + 9 s are sent, skipped (last stays t) and sent (last = t + 9 s).
C10_CooldownFromLastPass ==
    /\ \A i \in Mails :
           /\ mails[i].res = "cooldown" <=> mails[i].t - LastPass(i) < EMAIL_COOLDOWN_S
           /\ mails[i].res = "cooldown" =>
                  (mails[i].lasta = mails[i].lastb /\ mails[i].lasta = LastPass(i))
    /\ pc = "smtp" => mails[Len(mails)].res = "sending"
    /\ (/\ Len(mails) >= 3
        /\ mails[1].res /= "cooldown"
        /\ mails[2].t = mails[1].t + 500
        /\ mails[3].t = mails[1].t + 900) =>
           /\ mails[2].res = "cooldown" /\ mails[2].lasta = mails[1].t
           /\ mails[3].res /= "cooldown" /\ mails[3].lasta = mails[3].t

\* C10's case: the calls at t, t + 5 s and t + 9 s, with credentials.
C10_Witness ==
    /\ Len(mails) = 3
    /\ mails[2].t = mails[1].t + 500
    /\ mails[3].t = mails[1].t + 900
    /\ mails[1].res = "sent" /\ mails[2].res = "cooldown" /\ mails[3].res = "sent"
    /\ last_email_ts = mails[3].t

\* The accepted samples of channel c, and the time of the last of them (0 when
\* there is none: the timestamp's initial value).
AcceptedOf(c) == {i \in Samples : samples[i].ch = c /\ samples[i].acc}
LastAcceptedOf(c) ==
    IF AcceptedOf(c) = {} THEN 0
    ELSE samples[CHOOSE k \in AcceptedOf(c) : \A m \in AcceptedOf(c) : m <= k].t

\* Samples i < j are successive active samples of one channel.
NextSampleOf(i, j) ==
    /\ i < j
    /\ samples[i].ch = samples[j].ch
    /\ \A m \in Samples : (i < m /\ m < j) => samples[m].ch /= samples[i].ch

\* C11: a sample is accepted exactly when it is active and the time since the
\* channel's last accepted trigger exceeds DEBOUNCE_S; once the accepted
\* trigger's pipeline is done the channel's last-trigger timestamp is the time
\* of the accepted sample (not the time the pipeline finished), and a rejected
\* sample leaves it as it was: samples at 0.00, 0.10 and 0.35 s are accepted,
\* rejected, accepted, with the timestamp 0.00 and then 0.35.
C11_DebounceAcceptance ==
    /\ nAccepted = Cardinality({i \in Samples : samples[i].acc})
    /\ \A i \in Samples : samples[i].acc <=> samples[i].t - samples[i].lastb > DEBOUNCE_S
    /\ pc \in {"poll", "tick"} => \A c \in Channels : last[c] = LastAcceptedOf(c)
    /\ pc \in {"poll", "tick"} /\ samples /= <<>> /\ ~samples[Len(samples)].acc =>
           last[samples[Len(samples)].ch] = samples[Len(samples)].lastb
    /\ \A i, j, k \in Samples :
           (/\ NextSampleOf(i, j) /\ NextSampleOf(j, k)
            /\ samples[i].acc
            /\ samples[j].t = samples[i].t + 10
            /\ samples[k].t = samples[i].t + 35) =>
               /\ ~samples[j].acc /\ samples[j].lastb = samples[i].t
               /\ samples[k].acc /\ samples[k].lastb = samples[i].t

\* C11's case: the three samples of the scenario, the third one's pipeline done.
C11_Witness ==
    /\ pc = "tick"
    /\ Len(samples) = 3
    /\ samples[1].acc /\ ~samples[2].acc /\ samples[3].acc
    /\ samples[2].t = samples[1].t + 10 /\ samples[2].lastb = samples[1].t
    /\ samples[3].t = samples[1].t + 35 /\ samples[3].lastb = samples[1].t
    /\ last[samples[3].ch] = samples[3].t
    /\ now > samples[3].t + DEBOUNCE_S

\* C12: the last-trigger timestamp of a channel never decreases, and every
\* update of it (the end of an accepted trigger's pipeline) sets it to a
\* strictly greater value.
C12_LastMonotonic ==
    [][/\ \A c \in DOMAIN last : last'[c] >= last[c]
       /\ (pc = "alarm_off" /\ pc' \in {"poll", "tick"}) => last'[cur] > last[cur]]_vars

\* C12's case: a channel's timestamp has been updated, the wall clock was then
\* set back behind it, and a sample read at the earlier time left it in place.
C12_Witness ==
    \E i \in Samples :
        /\ samples[i].lastb > 0
        /\ samples[i].t < samples[i].lastb
        /\ ~samples[i].acc
        /\ last[samples[i].ch] = samples[i].lastb

\* The statements of one _try_capture: cam.start(), the warm-up and
\* capture_file, cam.stop().
AttemptPcs == {"cam_start", "warmup", "cam_stop"}

\* C13: at most one capture is in flight: an attempt (start, warm-up,
\* capture_file, stop) begins only when no other attempt on the camera is in
\* progress, in either mode, the retry after a reinitialisation included: the
\* attempt in progress is the last one begun, it begins on a handle that is
\* not started, and the handle is started only inside capture_image.
C13_OneCaptureInFlight ==
    /\ attempt \in 0..2
    /\ pc \in AttemptPcs => attempt \in 1..2 /\ attempt = capAttempts
    /\ pc = "cam_start" => ~camStarted
    /\ pc \in {"warmup", "cam_stop"} => camStarted
    /\ (camStarted /\ Running) => pc \in {"warmup", "cam_stop", "cam_recover", "cam_reinit"}
    /\ (Running /\ pc \notin AttemptPcs \cup {"cam_recover", "cam_reinit"}) => attempt = 0

\* C13's case: the retry of the second accepted trigger is about to start,
\* after the first attempt failed with the camera started and the handler's
\* cam.stop() failed too.
C13_Witness ==
    /\ pc = "cam_start"
    /\ attempt = 2
    /\ camOrphan
    /\ nAccepted = 2

\* What the for loop of individual_loop does after channel ch: the next pin
\* of PIEZO_PINS, or (after the last one) the tick's sleep.
VisitedNext(ch, pcn, chn) ==
    /\ pcn \in {"poll", "tick"}
    /\ pcn = "poll" => ch < NumPins /\ chn = ch + 1
    /\ pcn = "tick" => ch = NumPins

\* C14: in individual_loop the channels are debounced independently and are
\* visited in the order of PIEZO_PINS in every tick: a step changes the
\* timestamp of no channel but the one whose pipeline ends, whether an active
\* reading of a channel is accepted depends on that channel's timestamp only,
\* and the loop goes on from an accepted or rejected channel to the next pin.
C14_IndependentChannels ==
    [][mode = "individual" =>
         /\ \A c \in DOMAIN last :
                last'[c] /= last[c] => (pc = "alarm_off" /\ c = cur /\ last'[c] = tnow)
         /\ (pc = "poll" /\ Len(samples') > Len(samples)) =>
                /\ samples'[Len(samples')].ch = cur
                /\ nAccepted' = nAccepted + 1 <=> now - last[cur] > DEBOUNCE_S
                /\ nAccepted' = nAccepted => VisitedNext(cur, pc', cur')
                /\ nAccepted' /= nAccepted => cur' = cur
         /\ (pc = "poll" /\ reads' /= reads /\ samples' = samples) => VisitedNext(cur, pc', cur')
         /\ (pc = "alarm_off" /\ pc' /= "exited") => VisitedNext(cur, pc', cur')
         /\ (pc = "tick" /\ pc' = "poll") => cur' = 1]_vars

\* C14's case: two channels are active in one tick; the first is accepted and
\* then, with no sleep of the poll loop between, the second, each with its
\* own timestamp.
C14_Witness ==
    /\ mode = "individual"
    /\ pc = "tick"
    /\ Len(samples) = 2
    /\ samples[1].ch = 1 /\ samples[1].acc
    /\ samples[2].ch = 2 /\ samples[2].acc
    /\ samples[2].t = samples[1].t + ALARM_BEEPS * (BEEP_ON + BEEP_OFF) + WARMUP_S
    /\ last[1] = samples[1].t /\ last[2] = samples[2].t

\* How many times a run of MaxReads reads visits HeldChannel.
HeldVisits == IF mode = "combined" THEN MaxReads ELSE (MaxReads + NumPins - 1) \div NumPins

\* C15: triggering is on the level, not on an edge: a channel that stays
\* active is accepted again at the first sample after the pipeline is done
\* (more than DEBOUNCE_S after the accepted sample), and, nothing failing, a
\* channel held active is accepted again and again: every sample of it is
\* accepted, and the run reaches every one of its visits of the channel.
C15_HeldActiveAcceptedAgain ==
    /\ [](\A i \in Samples :
             samples[i].ch = HeldChannel =>
                 samples[i].acc /\ samples[i].t - samples[i].lastb > DEBOUNCE_S)
    /\ <>(Cardinality(AcceptedOf(HeldChannel)) = HeldVisits)

\* C15's case: the held channel was accepted, its pipeline ran (two buzzer
\* pulses, the warm-up), and the first sample after the tick's sleep, with
\* the level still high, is accepted again.
C15_Witness ==
    \E i, j \in AcceptedOf(HeldChannel) :
        /\ NextSampleOf(i, j)
        /\ samples[j].t = samples[i].t + ALARM_BEEPS * (BEEP_ON + BEEP_OFF) + WARMUP_S + TICK_S
        /\ samples[j].lastb = samples[i].t
        /\ irregular = 0 /\ exc = ""

\* C16: the boundaries: a sample exactly DEBOUNCE_S after the channel's last
\* accepted trigger is rejected (strictly more is needed), and a call of
\* send_email_with_image exactly EMAIL_COOLDOWN_S after the last attempt is
\* not skipped by the cooldown (strictly less is needed for the skip).
C16_Boundaries ==
    /\ \A i \in Samples :
           samples[i].t - samples[i].lastb = DEBOUNCE_S => ~samples[i].acc
    /\ \A i \in Mails :
           mails[i].t - mails[i].lastb = EMAIL_COOLDOWN_S =>
               mails[i].res /= "cooldown" /\ mails[i].lasta = mails[i].t

\* C16's case: a run with a call exactly the cooldown after the last attempt
\* and a sample exactly the debounce window after the last accepted one.
C16_Witness ==
    /\ \E i \in Samples :
           samples[i].lastb > 0 /\ samples[i].t - samples[i].lastb = DEBOUNCE_S
    /\ \E i \in Mails :
           mails[i].lastb > 0 /\ mails[i].t - mails[i].lastb = EMAIL_COOLDOWN_S

\* C17: capture_image's error handling: after the first attempt fails (at
\* start, capture_file or stop) cam.stop() is attempted and its failure is
\* swallowed, the camera is reinitialised once and the capture retried once;
\* a failing reinitialisation is terminal (no retry, the error leaves the
\* call); a call makes at most two attempts and one reinitialisation, and no
\* reinitialisation when the first attempt succeeds.
C17_CaptureRecovery ==
    /\ capAttempts <= 2 /\ capReinits <= 1
    /\ capAttempts = 2 <=> (capReinits = 1 /\ attempt /= 1)
    /\ pc \in {"cam_recover", "cam_reinit"} =>
           attempt = 1 /\ capAttempts = 1 /\ capReinits = 0
    /\ (attempt = 0 /\ capAttempts = 1) => capReinits = 0
    /\ (capReinits = 1 /\ capAttempts = 1) => (Exited /\ attempt = 1 /\ exc = "Exception")
    /\ (Exited /\ exc = "Exception" /\ attempt = 1) => capReinits = 1
    /\ (Exited /\ exc = "Exception" /\ attempt = 2) => capAttempts = 2

\* C17's case: the first attempt failed with the camera started, the
\* handler's cam.stop() failed too, and the retry on the new handle succeeded:
\* capture_image has returned.
C17_Witness ==
    /\ pc = "email"
    /\ camOrphan
    /\ attempt = 0 /\ capAttempts = 2 /\ capReinits = 1
    /\ img \in files

\* C18: a failing transmission is neither caught nor retried: an accepted
\* trigger causes at most one transmission attempt; the failure comes after
\* _last_email_ts was updated, leaves the poll loop (no trigger is accepted
\* after it), and skips the alarm-off step: the channel's timestamp is not
\* written and the outputs go inactive only in the shutdown handler.
C18_TransmissionFailure ==
    /\ \A i, j \in Mails : mails[i].n = mails[j].n => i = j
    /\ \A i \in Mails :
           mails[i].res = "failed" =>
               /\ i = Len(mails) /\ nAccepted = mails[i].n
               /\ Exited /\ exc = "Exception"
               /\ mails[i].lasta = mails[i].t /\ last_email_ts = mails[i].t
               /\ trace[Len(trace)].op = "email"
               /\ samples[Len(samples)].acc /\ tnow = samples[Len(samples)].t
               /\ last[mails[i].ch] = samples[Len(samples)].lastb
               /\ pc = "finally" => (ledRed /\ ledGreen /\ ~gpioClean)
               /\ pc = "exited" => (~ledRed /\ ~ledGreen /\ ~buzzer /\ gpioClean)

\* C18's case: the transmission of the second accepted trigger failed, the
\* run is over, and the shutdown handler has driven the outputs inactive.
C18_Witness ==
    /\ pc = "exited"
    /\ Len(mails) = 2
    /\ mails[1].res = "sent"
    /\ mails[2].res = "failed"
    /\ ~ledRed

\* The statements inside capture_image and inside send_email_with_image.
CapturePcs == {"cam_start", "warmup", "cam_stop", "cam_recover", "cam_reinit"}
EmailPcs == {"smtp"}

\* C19: wherever the poll loop samples a channel the armed indicator
\* (LED_GREEN) is on and the alarm indicator (LED_RED) and the buzzer are off;
\* all through capture_image and send_email_with_image the alarm indicator is
\* on and the buzzer is off (and so they are at the two calls).
C19_OutputLevels ==
    /\ pc = "poll" => (ledGreen /\ ~ledRed /\ ~buzzer)
    /\ pc \in CapturePcs \cup EmailPcs \cup {"capture", "email"} =>
           (ledRed /\ ~buzzer /\ ledGreen)
    /\ pc = "alarm_off" => (ledRed /\ ~buzzer)

\* C19's case: the loop samples a channel after a trigger whose pipeline ran
\* the buzzer, the camera and the transmission.
C19_Witness ==
    /\ pc = "poll"
    /\ mails /= <<>> /\ mails[Len(mails)].res = "sent"
    /\ ledGreen /\ ~ledRed /\ ~buzzer
    /\ trace /= <<>> /\ trace[Len(trace)].op \in {"alarm_off", "sample"}

Caps == 1..Len(caps)

\* C20 as stated: any two capture_image calls of a run begin more than one
\* second apart and get different file names, so no artifact of an earlier
\* call is overwritten.
C20_Original ==
    \A i, j \in Caps :
        i < j => (caps[j].t - caps[i].t > 100 /\ caps[j].path /= caps[i].path)

\* C20 amended: while the wall clock is not set back between them, two
\* capture_image calls of a run begin at least WARMUP_S plus ALARM_BEEPS
\* buzzer pulses apart (plus one poll tick in combined mode), which is more
\* than one second, and get different second-resolution file names: the later
\* call overwrites no artifact of the earlier one.
C20_DistinctFilenames ==
    \A i, j \in Caps :
        (i < j /\ caps[i].sb = caps[j].sb) =>
            /\ caps[j].t - caps[i].t >= ALARM_BEEPS * (BEEP_ON + BEEP_OFF) + WARMUP_S
            /\ mode = "combined" =>
                   caps[j].t - caps[i].t >= ALARM_BEEPS * (BEEP_ON + BEEP_OFF) + WARMUP_S + TICK_S
            /\ caps[j].t - caps[i].t > 100
            /\ caps[j].path /= caps[i].path

\* C20's case: two captures of the combined pin as close as the loop allows
\* (the pipeline and one tick), both files on disk under different names.
C20_Witness ==
    /\ mode = "combined"
    /\ Len(caps) = 2
    /\ caps[1].sb = caps[2].sb
    /\ caps[2].t = caps[1].t + ALARM_BEEPS * (BEEP_ON + BEEP_OFF) + WARMUP_S + TICK_S
    /\ caps[1].path /= caps[2].path
    /\ {caps[1].path, caps[2].path} \subseteq files

====
